---- MODULE Spec2Model ----
(***************************************************************************)
(* Error chains of pavelmerkulov/errors: the AppError class, its built-in  *)
(* subclasses, wrap, the chain views (chain, fullStack, rootCause,         *)
(* chainArray, toJSON) and the standalone queries isError / asError.       *)
(*                                                                         *)
(* The heap is a sequence of objects; an object reference is its index.    *)
(* Values that are not objects (undefined, null, a string, a number) are   *)
(* the non-positive integers named below.                                  *)
(***************************************************************************)
EXTENDS Integers, Sequences, FiniteSets, TLC

\* ---- bounds of the model -------------------------------------------------
MaxNodes == 3
MaxForeign == 2

\* ---- values ----------------------------------------------------------------
Undefined == 0
Null == -1
StrVal == -2
NumVal == -3

Primitives == {Undefined, Null, StrVal, NumVal}

\* JavaScript truthiness of a value: every object, the non-empty string and
\* the non-zero number are truthy; undefined and null are not.
Truthy(v) == v > 0 \/ v \in {StrVal, NumVal}

\* ---- classes ---------------------------------------------------------------
\* The built-in subclasses modelled here; every one extends AppError directly.
BuiltinClasses == {"NotFoundError", "ValidationError", "DatabaseError", "UnexpectedError"}

AppClasses == {"AppError"} \cup BuiltinClasses

\* The classes returned by two calls of createErrorClass(name, messageFactory):
\* each call makes a class of its own, `class extends AppError`.
CustomClasses == {"Custom1", "Custom2"}

\* The name property of a class. createErrorClass redefines it to the name it
\* was given: Custom1 was made as createErrorClass('RateLimitError', ..) and
\* Custom2 as createErrorClass('NotFoundError', ..), a name that a built-in
\* class bears too.
ClassName(c) ==
  IF c = "Custom1" THEN "RateLimitError"
  ELSE IF c = "Custom2" THEN "NotFoundError"
  ELSE c

\* The superclass of a class ("" above Object).
Extends(c) ==
  IF c \in BuiltinClasses \cup CustomClasses THEN "AppError"
  ELSE IF c = "AppError" THEN "Error"
  ELSE IF c = "Error" THEN "Object"
  ELSE ""

RECURSIVE ProtoChain(_)
ProtoChain(c) == IF c = "" THEN {} ELSE {c} \cup ProtoChain(Extends(c))

\* The messages a caller passes to new AppError(...) and to wrap(...).
Messages == {"Failed to get user", "Request failed"}

VARIABLES heap, last, task

vars == <<heap, last, task>>

Refs == 1..Len(heap)

Values == Refs \cup Primitives

\* v instanceof k
InstanceOf(v, k) == v \in Refs /\ k \in ProtoChain(heap[v].cls)

\* The chain nodes of the heap: the instances of AppError.
Nodes == {n \in Refs : InstanceOf(n, "AppError")}

\* ---- construction ----------------------------------------------------------
\* The constructor without `this.name = this.constructor.name`: name stays the
\* one inherited from Error.prototype.
AppErrorUnnamed(cls, message, cause, id) ==
  [cls |-> cls, name |-> "Error", message |-> message, cause |-> cause,
   stack |-> "Error\n    at #" \o ToString(id)]

\* new <cls>(message, cause), allocated as object id: name is the name of the
\* class and the stack is the trace captured at this construction.
AppError(cls, message, cause, id) ==
  [cls |-> cls, name |-> ClassName(cls), message |-> message, cause |-> cause,
   stack |-> "Error\n    at #" \o ToString(id)]

NotFoundError(resource, rid, cause, id) ==
  AppError("NotFoundError",
           IF rid /= "" THEN resource \o " with id '" \o rid \o "' not found"
           ELSE resource \o " not found",
           cause, id)

ValidationError(field, reason, cause, id) ==
  AppError("ValidationError", field \o ": " \o reason, cause, id)

DatabaseError(operation, message, cause, id) ==
  AppError("DatabaseError", operation \o ": " \o message, cause, id)

\* new CustomError(props, cause) of a class made by createErrorClass, with
\* messageFactory = (props) => `Rate limited. Retry after ${props.retryAfter}s`
\* and props = { retryAfter: 60 }
CustomError(cls, retryAfter, cause, id) ==
  AppError(cls, "Rate limited. Retry after " \o retryAfter \o "s", cause, id)

\* this.constructor.name
tag(n) == ClassName(heap[n].cls)

\* wrap that reclassifies: the new head keeps the class of the wrapped node
wrapKeepsKind(n, message, id) == AppError(heap[n].cls, message, n, id)

\* wrap that flattens: the new head points past the wrapped node
wrapFlattens(n, message, id) == AppError("AppError", message, heap[n].cause, id)

\* wrap that forgets what it wraps: the new head has no cause
wrapDetached(n, message, id) == AppError("AppError", message, Undefined, id)

\* wrap that links the new head to itself
wrapSelf(n, message, id) == AppError("AppError", message, id, id)

\* n.wrap(message), allocated as object id
wrap(n, message, id) == AppError("AppError", message, n, id)

\* ---- the views of a chain ----------------------------------------------------
\* Array.prototype.join
RECURSIVE join(_, _)
join(parts, sep) ==
  IF Len(parts) = 0 THEN <<>>
  ELSE IF Len(parts) = 1 THEN <<parts[1]>>
  ELSE <<parts[1], sep>> \o join(Tail(parts), sep)

segment(n) == "[" \o tag(n) \o "] " \o heap[n].message

RECURSIVE chainLoop(_, _)
chainLoop(messages, current) ==
  IF Truthy(current)
  THEN chainLoop(Append(messages, segment(current)), heap[current].cause)
  ELSE messages

\* chain() that ends every segment, the last one too, with the separator
chainTrailingSep(n) ==
  join(chainLoop(<<segment(n)>>, heap[n].cause), " -> ") \o <<" -> ">>

chain(n) == join(chainLoop(<<segment(n)>>, heap[n].cause), " -> ")

RECURSIVE fullStackLoop(_, _, _)
fullStackLoop(stacks, current, depth) ==
  IF Truthy(current)
  THEN LET prefix == IF depth = 0 THEN <<>> ELSE <<"\nCaused by: ">>
           piece == prefix \o <<"[" \o tag(current) \o "] " \o heap[current].stack>>
       IN fullStackLoop(stacks \o piece, heap[current].cause, depth + 1)
  ELSE stacks

\* fullStack() whose depth starts at 1: the head gets the marker too
fullStackPrefixAll(n) == fullStackLoop(<<>>, n, 1)

fullStack(n) == fullStackLoop(<<>>, n, 0)

\* rootCause() with an if in place of the while: one step only
rootCauseOneStep(n) == IF Truthy(heap[n].cause) THEN heap[n].cause ELSE n

RECURSIVE rootCause(_)
rootCause(n) == IF Truthy(heap[n].cause) THEN rootCause(heap[n].cause) ELSE n

RECURSIVE chainArrayLoop(_, _)
chainArrayLoop(errors, current) ==
  IF Truthy(current)
  THEN chainArrayLoop(Append(errors, current), heap[current].cause)
  ELSE errors

\* chainArray() with an if in place of the while: the head and its cause only
chainArrayOneStep(n) ==
  IF Truthy(heap[n].cause) THEN <<n, heap[n].cause>> ELSE <<n>>

chainArray(n) == chainArrayLoop(<<n>>, heap[n].cause)

\* toJSON() that does not serialise the cause
toJSONShallow(n) ==
  [tag |-> tag(n), name |-> heap[n].name, message |-> heap[n].message,
   stack |-> heap[n].stack, cause |-> <<>>]

\* An absent cause is the empty sequence, a present one a one-element sequence.
RECURSIVE toJSON(_)
toJSON(n) ==
  [tag |-> tag(n), name |-> heap[n].name, message |-> heap[n].message,
   stack |-> heap[n].stack,
   cause |-> IF heap[n].cause \in {Undefined, Null} THEN <<>>
             ELSE <<toJSON(heap[n].cause)>>]

\* ---- the standalone queries --------------------------------------------------
\* isError that looks at the value and its direct cause only
isErrorShallow(error, errorClass) ==
  \/ InstanceOf(error, errorClass)
  \/ /\ InstanceOf(error, "Error")
     /\ InstanceOf(heap[error].cause, errorClass)

\* isError that walks every object with a truthy cause, Error or not
RECURSIVE isErrorStructural(_, _)
isErrorStructural(error, errorClass) ==
  IF InstanceOf(error, errorClass) THEN TRUE
  ELSE IF error \in Refs /\ Truthy(heap[error].cause)
       THEN isErrorStructural(heap[error].cause, errorClass)
       ELSE FALSE

\* isError that compares kinds: a node matches when its tag is the name of the
\* class asked for
RECURSIVE isErrorByTag(_, _)
isErrorByTag(error, errorClass) ==
  IF error \in Nodes /\ tag(error) = ClassName(errorClass) THEN TRUE
  ELSE IF InstanceOf(error, "Error") /\ Truthy(heap[error].cause)
       THEN isErrorByTag(heap[error].cause, errorClass)
       ELSE FALSE

RECURSIVE isError(_, _)
isError(error, errorClass) ==
  IF InstanceOf(error, errorClass) THEN TRUE
  ELSE IF InstanceOf(error, "Error") /\ Truthy(heap[error].cause)
       THEN isError(heap[error].cause, errorClass)
       ELSE FALSE

\* asError that returns the deepest match instead of the first
RECURSIVE asErrorDeepest(_, _)
asErrorDeepest(error, errorClass) ==
  LET below == IF InstanceOf(error, "Error") /\ Truthy(heap[error].cause)
               THEN asErrorDeepest(heap[error].cause, errorClass)
               ELSE Undefined
  IN IF below /= Undefined THEN below
     ELSE IF InstanceOf(error, errorClass) THEN error
     ELSE Undefined

\* asError that gives null, not undefined, when nothing matches
RECURSIVE asErrorOrNull(_, _)
asErrorOrNull(error, errorClass) ==
  IF InstanceOf(error, errorClass) THEN error
  ELSE IF InstanceOf(error, "Error") /\ Truthy(heap[error].cause)
       THEN asErrorOrNull(heap[error].cause, errorClass)
       ELSE Null

\* asError that tests the value itself and never follows a cause
asErrorHeadOnly(error, errorClass) ==
  IF InstanceOf(error, errorClass) THEN error ELSE Undefined

RECURSIVE asError(_, _)
asError(error, errorClass) ==
  IF InstanceOf(error, errorClass) THEN error
  ELSE IF InstanceOf(error, "Error") /\ Truthy(heap[error].cause)
       THEN asError(heap[error].cause, errorClass)
       ELSE Undefined

\* ---- the program state and its steps -----------------------------------------
\* last records the most recent call: its name, its arguments and its result.
NoCall ==
  [op |-> "none", arg |-> Undefined, k |-> "", msg |-> "", b |-> FALSE,
   ref |-> Undefined, list |-> <<>>, strs |-> <<>>, json |-> <<>>,
   base |-> Undefined, j |-> 0,
   mapper |-> "", failed |-> FALSE, threw |-> FALSE, isOk |-> FALSE,
   value |-> Undefined,
   walk |-> "", cur |-> Undefined, running |-> FALSE]

\* task is the asynchronous operation handed to tryCatchAsync and the
\* ResultAsync made from it; no such operation exists at the start.
NoTask ==
  [phase |-> "idle", mapper |-> "", inner |-> "none", innerValue |-> Undefined,
   outer |-> "none", outerValue |-> Undefined]

Init == heap = <<>> /\ last = NoCall /\ task = NoTask

NextId == Len(heap) + 1

Foreign == {o \in Refs : ~InstanceOf(o, "AppError")}

\* The value at hand: the object allocated last. Objects never change, so a
\* query of an older object gives what it gave when that object was the newest.
Newest == {Len(heap)} \cap Refs

NewestNode == Newest \cap Nodes

\* Allocate object o and record the constructor call.
Allocate(o, opname) ==
  /\ heap' = Append(heap, o)
  /\ last' = [NoCall EXCEPT !.op = opname, !.arg = o.cause, !.msg = o.message,
                            !.ref = NextId]
  /\ UNCHANGED task

\* new AppError(message, cause)
NewAppError ==
  /\ Len(heap) < MaxNodes
  /\ \E message \in Messages, cause \in Nodes \cup {Undefined} :
       Allocate(AppError("AppError", message, cause, NextId), "new")

\* new NotFoundError('User', '123', cause)
NewNotFoundError ==
  /\ Len(heap) < MaxNodes
  /\ \E cause \in Nodes \cup {Undefined} :
       Allocate(NotFoundError("User", "123", cause, NextId), "new")

\* new DatabaseError('SELECT', 'Timeout', cause)
NewDatabaseError ==
  /\ Len(heap) < MaxNodes
  /\ \E cause \in Nodes \cup {Undefined} :
       Allocate(DatabaseError("SELECT", "Timeout", cause, NextId), "new")

\* new Error('wrapper', { cause }): a host error that is no chain node; its
\* cause is any value (here an object, a string or none).
NewError ==
  /\ Len(heap) < MaxNodes
  /\ Cardinality(Foreign) < MaxForeign
  /\ \E cause \in Refs \cup {Undefined, StrVal} :
       Allocate([cls |-> "Error", name |-> "Error", message |-> "wrapper",
                 cause |-> cause, stack |-> "Error\n    at #" \o ToString(NextId)],
                "new")

\* { cause }: a plain object that exposes a cause property and is no Error.
NewObject ==
  /\ Len(heap) < MaxNodes
  /\ Cardinality(Foreign) < MaxForeign
  /\ \E cause \in Refs \cup {StrVal} :
       Allocate([cls |-> "Object", name |-> "", message |-> "",
                 cause |-> cause, stack |-> ""], "new")

\* The heap after a wrap that also overwrites the message of the wrapped node
afterWrapInPlace(n, message) ==
  Append([heap EXCEPT ![n].message = message], wrap(n, message, NextId))

\* The heap after n.wrap(message): one more object, the others as they were.
afterWrap(n, message) == Append(heap, wrap(n, message, NextId))

\* n.wrap(message); a wrap applied to the result of the previous wrap continues
\* the same fluent sequence n.wrap(..).wrap(..), counted in base and j.
CallWrap ==
  /\ Len(heap) < MaxNodes
  /\ \E n \in Nodes, message \in Messages :
       LET cont == last.op = "wrap" /\ last.ref = n IN
       /\ heap' = afterWrap(n, message)
       /\ last' = [NoCall EXCEPT !.op = "wrap", !.arg = n, !.msg = message,
                                 !.ref = NextId,
                                 !.base = IF cont THEN last.base ELSE n,
                                 !.j = IF cont THEN last.j + 1 ELSE 1]
       /\ UNCHANGED task

\* isError(error, errorClass) of one of the given values
IsErrorOf(values) ==
  \E error \in values, errorClass \in AppClasses :
    /\ last' = [NoCall EXCEPT !.op = "isError", !.arg = error, !.k = errorClass,
                              !.b = isError(error, errorClass)]
    /\ UNCHANGED <<heap, task>>

\* asError(error, errorClass) of one of the given values
AsErrorOf(values) ==
  \E error \in values, errorClass \in AppClasses :
    /\ last' = [NoCall EXCEPT !.op = "asError", !.arg = error, !.k = errorClass,
                              !.ref = asError(error, errorClass)]
    /\ UNCHANGED <<heap, task>>

\* isError(error, errorClass) of the value at hand
CallIsError == IsErrorOf(Newest)

\* asError(error, errorClass) of the value at hand
CallAsError == AsErrorOf(Newest)

CallChain ==
  \E n \in NewestNode :
    /\ last' = [NoCall EXCEPT !.op = "chain", !.arg = n, !.strs = chain(n)]
    /\ UNCHANGED <<heap, task>>

CallFullStack ==
  \E n \in NewestNode :
    /\ last' = [NoCall EXCEPT !.op = "fullStack", !.arg = n, !.strs = fullStack(n)]
    /\ UNCHANGED <<heap, task>>

CallRootCause ==
  \E n \in NewestNode :
    /\ last' = [NoCall EXCEPT !.op = "rootCause", !.arg = n, !.ref = rootCause(n)]
    /\ UNCHANGED <<heap, task>>

CallChainArray ==
  \E n \in NewestNode :
    /\ last' = [NoCall EXCEPT !.op = "chainArray", !.arg = n, !.list = chainArray(n)]
    /\ UNCHANGED <<heap, task>>

CallToJSON ==
  \E n \in NewestNode :
    /\ last' = [NoCall EXCEPT !.op = "toJSON", !.arg = n, !.json = <<toJSON(n)>>]
    /\ UNCHANGED <<heap, task>>

\* ---- conversion of unknown values ---------------------------------------------
\* Object.create(null): an object with no prototype, hence with no toString.
NewBareObject ==
  /\ Len(heap) < MaxNodes
  /\ Cardinality(Foreign) < MaxForeign
  /\ Allocate([cls |-> "NullProto", name |-> "", message |-> "",
               cause |-> Undefined, stack |-> ""], "new")

\* String(v) throws a TypeError when v cannot be converted to a primitive:
\* an object that inherits no toString / valueOf.
StringThrows(v) == v \in Refs /\ "Object" \notin ProtoChain(heap[v].cls)

\* String(v) of a value that can be converted
String(v) ==
  IF v = Undefined THEN "undefined"
  ELSE IF v = Null THEN "null"
  ELSE IF v = StrVal THEN "plain string"
  ELSE IF v = NumVal THEN "42"
  ELSE IF InstanceOf(v, "Error") THEN heap[v].name \o ": " \o heap[v].message
  ELSE "[object Object]"

\* new UnexpectedError(message, cause)
UnexpectedError(message, cause, id) == AppError("UnexpectedError", message, cause, id)

\* The outcome of a call that may allocate: whether it threw, the reference it
\* returned and the objects it allocated, in order, from NextId on.
Returned(ref, alloc) == [threw |-> FALSE, ref |-> ref, alloc |-> alloc]

Threw == [threw |-> TRUE, ref |-> Undefined, alloc |-> <<>>]

\* fromUnknown without its first test: a chain node, being an Error, is converted
\* like a foreign error
fromUnknownNoShortcut(error) ==
  IF InstanceOf(error, "Error")
  THEN Returned(NextId,
                <<[UnexpectedError(heap[error].message, Undefined, NextId)
                     EXCEPT !.stack = heap[error].stack]>>)
  ELSE IF StringThrows(error) THEN Threw
  ELSE Returned(NextId, <<UnexpectedError(String(error), Undefined, NextId)>>)

\* fromUnknown(error)
fromUnknown(error) ==
  IF InstanceOf(error, "AppError") THEN Returned(error, <<>>)
  ELSE IF InstanceOf(error, "Error")
  THEN Returned(NextId,
                <<[UnexpectedError(heap[error].message, Undefined, NextId)
                     EXCEPT !.stack = heap[error].stack]>>)
  ELSE IF StringThrows(error) THEN Threw
  ELSE Returned(NextId, <<UnexpectedError(String(error), Undefined, NextId)>>)

\* The values a caller has at hand to pass on or to throw.
AnyValue == Newest \cup Primitives

FromUnknownOf(values) ==
  \E error \in values :
    LET out == fromUnknown(error) IN
    /\ Len(heap) + Len(out.alloc) <= MaxNodes
    /\ heap' = heap \o out.alloc
    /\ last' = [NoCall EXCEPT !.op = "fromUnknown", !.arg = error,
                              !.threw = out.threw, !.ref = out.ref]
    /\ UNCHANGED task

\* isError / asError of any value at hand, a string, a number, null and
\* undefined included
CallIsErrorAny == IsErrorOf(AnyValue)

CallAsErrorAny == AsErrorOf(AnyValue)

\* fromUnknown of any value at hand
CallFromUnknown == FromUnknownOf(AnyValue)

\* fromUnknown of a value that is a chain node already
CallFromUnknownNode == FromUnknownOf(NewestNode)

\* fromUnknown('string error')
CallFromUnknownString == FromUnknownOf({StrVal})

\* ---- Result and the helpers built on it ----------------------------------------
\* neverthrow's ok(value) and err(error)
ok(value) == [isOk |-> TRUE, value |-> value, error |-> Undefined]

err(error) == [isOk |-> FALSE, value |-> Undefined, error |-> error]

\* What fn does when called: return a value or throw one.
FnOutcomes ==
  {[failed |-> FALSE, value |-> NumVal]}
    \cup {[failed |-> TRUE, value |-> x] : x \in AnyValue}

\* The mappers a caller passes: none (the default, fromUnknown) or
\* () => new ValidationError('field', 'invalid').
Mappers == {"default", "custom"}

\* mapError(error)
mapError(mapper, error) ==
  IF mapper = "default" THEN fromUnknown(error)
  ELSE Returned(NextId, <<ValidationError("field", "invalid", Undefined, NextId)>>)

\* tryCatch(fn, mapError): the Result it returns, or that it threw, and the
\* objects allocated on the way.
tryCatch(fn, mapper) ==
  IF ~fn.failed THEN [threw |-> FALSE, result |-> ok(fn.value), alloc |-> <<>>]
  ELSE LET m == mapError(mapper, fn.value) IN
       IF m.threw THEN [threw |-> TRUE, result |-> err(Undefined), alloc |-> <<>>]
       ELSE [threw |-> FALSE, result |-> err(m.ref), alloc |-> m.alloc]

CallTryCatch ==
  \E fn \in FnOutcomes, mapper \in Mappers :
    LET out == tryCatch(fn, mapper) IN
    /\ Len(heap) + Len(out.alloc) <= MaxNodes
    /\ heap' = heap \o out.alloc
    /\ last' = [NoCall EXCEPT !.op = "tryCatch", !.arg = fn.value,
                              !.failed = fn.failed, !.mapper = mapper,
                              !.threw = out.threw, !.isOk = out.result.isOk,
                              !.value = out.result.value, !.ref = out.result.error]
    /\ UNCHANGED task

\* Result.mapErr(f) of neverthrow, with f = (e) => e.wrap(message)
mapErrWrap(result, message) ==
  IF result.isOk THEN [result |-> ok(result.value), alloc |-> <<>>]
  ELSE [result |-> err(NextId), alloc |-> <<wrap(result.error, message, NextId)>>]

\* wrapErr that wraps nothing: the failure becomes a bare AppError
wrapErrDropsCause(message, result) ==
  IF result.isOk THEN [result |-> ok(result.value), alloc |-> <<>>]
  ELSE [result |-> err(NextId),
        alloc |-> <<AppError("AppError", message, Undefined, NextId)>>]

\* wrapErr(message)(result)
wrapErr(message, result) == mapErrWrap(result, message)

\* wrapErrAsync(message)(result): the Result the returned ResultAsync resolves
\* to, given the Result its argument resolves to.
wrapErrAsync(message, result) == mapErrWrap(result, message)

\* The Results a caller holds: a success, or a failure with the node at hand.
Results == {ok(NumVal)} \cup {err(e) : e \in NewestNode}

CallWrapErr ==
  \E message \in Messages, result \in Results :
    LET out == wrapErr(message, result) IN
    /\ Len(heap) + Len(out.alloc) <= MaxNodes
    /\ heap' = heap \o out.alloc
    /\ last' = [NoCall EXCEPT !.op = "wrapErr", !.msg = message,
                              !.failed = ~result.isOk,
                              !.arg = IF result.isOk THEN result.value
                                      ELSE result.error,
                              !.isOk = out.result.isOk,
                              !.value = out.result.value, !.ref = out.result.error]
    /\ UNCHANGED task

CallWrapErrAsync ==
  \E message \in Messages, result \in Results :
    LET out == wrapErrAsync(message, result) IN
    /\ Len(heap) + Len(out.alloc) <= MaxNodes
    /\ heap' = heap \o out.alloc
    /\ last' = [NoCall EXCEPT !.op = "wrapErrAsync", !.msg = message,
                              !.failed = ~result.isOk,
                              !.arg = IF result.isOk THEN result.value
                                      ELSE result.error,
                              !.isOk = out.result.isOk,
                              !.value = out.result.value, !.ref = out.result.error]
    /\ UNCHANGED task

\* ---- tryCatchAsync ---------------------------------------------------------------
\* tryCatchAsync(fn, mapError) calls fn() at once. If fn throws before it has
\* made its promise the exception leaves tryCatchAsync; otherwise the promise,
\* still pending here, goes to ResultAsync.fromPromise.
CallTryCatchAsync ==
  /\ task.phase = "idle"
  /\ \E throwsAtOnce \in BOOLEAN, mapper \in Mappers, x \in AnyValue :
       /\ throwsAtOnce => mapper = "default"
       /\ ~throwsAtOnce => x = Undefined
       /\ task' = IF throwsAtOnce THEN NoTask
                  ELSE [NoTask EXCEPT !.phase = "pending", !.mapper = mapper]
       /\ last' = [NoCall EXCEPT !.op = "tryCatchAsync", !.mapper = mapper,
                                 !.arg = x, !.failed = throwsAtOnce,
                                 !.threw = throwsAtOnce]
  /\ UNCHANGED heap

\* The operation started by fn settles: it fulfils with a value or rejects.
SettleInner ==
  /\ task.phase = "pending"
  /\ \E fn \in FnOutcomes :
       task' = [task EXCEPT !.phase = "innerSettled",
                            !.inner = IF fn.failed THEN "rejected" ELSE "fulfilled",
                            !.innerValue = fn.value]
  /\ UNCHANGED <<heap, last>>

\* fromPromise's reactions run: promise.then(v => ok(v)).catch(e => err(mapError(e))).
\* A mapError that throws rejects the promise inside the ResultAsync.
RunReaction ==
  /\ task.phase = "innerSettled"
  /\ LET m == mapError(task.mapper, task.innerValue) IN
     IF task.inner = "fulfilled"
     THEN /\ task' = [task EXCEPT !.phase = "settled", !.outer = "ok",
                                  !.outerValue = task.innerValue]
          /\ UNCHANGED heap
     ELSE /\ Len(heap) + Len(m.alloc) <= MaxNodes
          /\ heap' = heap \o m.alloc
          /\ task' = [task EXCEPT !.phase = "settled",
                                  !.outer = IF m.threw THEN "rejected" ELSE "err",
                                  !.outerValue = m.ref]
  /\ UNCHANGED last

\* ---- user-defined kinds and hasTag --------------------------------------------
\* new RateLimitError({ retryAfter: 60 }, cause) for a class made by
\* createErrorClass
NewCustomError ==
  /\ Len(heap) < MaxNodes
  /\ \E cls \in CustomClasses, cause \in NewestNode \cup {Undefined} :
       Allocate(CustomError(cls, "60", cause, NextId), "new")

\* hasTag that looks at the head only
hasTagHeadOnly(n, s) == tag(n) = s

\* n.hasTag(s): the walk of is(), comparing the tag of each node with s
RECURSIVE hasTag(_, _)
hasTag(n, s) ==
  IF tag(n) = s THEN TRUE
  ELSE IF Truthy(heap[n].cause) THEN hasTag(heap[n].cause, s)
  ELSE FALSE

\* The kind names a caller asks for.
TagNames == {"AppError", "NotFoundError", "RateLimitError", "DatabaseError"}

CallHasTag ==
  \E n \in NewestNode, s \in TagNames :
    /\ last' = [NoCall EXCEPT !.op = "hasTag", !.arg = n, !.k = s,
                              !.b = hasTag(n, s)]
    /\ UNCHANGED <<heap, task>>

\* ---- the traversals, one iteration at a time ---------------------------------
\* Each traversal as the loop (or the recursion) the code runs: last.cur is the
\* value of `current` (of `error` / `this` for the recursive ones), last.j the
\* iterations done, last.running whether the call has yet to return.
Traversals ==
  {"isError", "asError", "chain", "fullStack", "rootCause", "chainArray", "toJSON"}

\* Where traversal t of value v starts: chain and chainArray take the head
\* before the loop and start at its cause.
WalkStart(t, v) == IF t \in {"chain", "chainArray"} THEN heap[v].cause ELSE v

\* Whether traversal t, standing at cur, goes on to the cause of cur:
\* `while (current)`, `while (current.cause)`, `this.cause?.toJSON()`, and for
\* the queries `!(error instanceof errorClass) && error instanceof Error &&
\* error.cause`.
WalkGoesOn(t, cur, k) ==
  CASE t \in {"chain", "chainArray", "fullStack"} -> Truthy(cur)
    [] t = "rootCause" -> Truthy(heap[cur].cause)
    [] t = "toJSON" -> heap[cur].cause \notin {Undefined, Null}
    [] OTHER -> /\ ~InstanceOf(cur, k)
                /\ InstanceOf(cur, "Error")
                /\ Truthy(heap[cur].cause)

\* A step that does not move: `current = current`
WalkStays(cur) == cur

\* current = current.cause
WalkNext(cur) == heap[cur].cause

\* No traversal is under way: the program is between two calls.
Idle == ~last.running

\* A traversal is called: a method of a chain node, or a query of any object.
StartWalk ==
  /\ Idle
  /\ \E t \in Traversals, v \in Newest, k \in AppClasses :
       /\ t \in {"isError", "asError"} \/ (v \in Nodes /\ k = "AppError")
       /\ last' = [NoCall EXCEPT !.op = "walk", !.walk = t, !.arg = v, !.k = k,
                                 !.cur = WalkStart(t, v), !.running = TRUE]
  /\ UNCHANGED <<heap, task>>

\* One test of the loop condition: another iteration, or the return. The
\* iterations counted stop at one more than there are objects.
StepWalk ==
  /\ last.running
  /\ last.j <= Len(heap)
  /\ last' = IF WalkGoesOn(last.walk, last.cur, last.k)
             THEN [last EXCEPT !.cur = WalkNext(last.cur), !.j = last.j + 1]
             ELSE [last EXCEPT !.running = FALSE]
  /\ UNCHANGED <<heap, task>>

\* Chains of chain nodes: construction, wrap, the views and the queries.
Next ==
  \/ NewAppError
  \/ NewNotFoundError
  \/ NewDatabaseError
  \/ CallWrap
  \/ CallIsError
  \/ CallAsError
  \/ CallChain
  \/ CallFullStack
  \/ CallRootCause
  \/ CallChainArray
  \/ CallToJSON

Spec == Init /\ [][Next]_vars

\* Values of type unknown: chain nodes below host errors and plain objects,
\* and the queries applied to any of them.
NextAny ==
  \/ NewNotFoundError
  \/ NewDatabaseError
  \/ NewError
  \/ NewObject
  \/ CallIsError
  \/ CallAsError

SpecAny == Init /\ [][NextAny]_vars

\* ---- properties ---------------------------------------------------------------
\* The indices of chainArray(n) whose node is an instance of class k.
Matches(n, k) ==
  {i \in 1..Len(chainArray(n)) : InstanceOf(chainArray(n)[i], k)}

Min(S) == CHOOSE i \in S : \A m \in S : i <= m

\* C1, as stated: for every chain head n and every kind k, isError(n, k) is
\* true exactly when some node of chainArray(n) has its kind (tag) equal to k.
C1_IsErrorIffKindInChain ==
  \A n \in Nodes, k \in AppClasses :
    isError(n, k) = (\E i \in 1..Len(chainArray(n)) : tag(chainArray(n)[i]) = k)

\* C1, amended: for every chain head n and every class k, isError(n, k) is true
\* exactly when some node of chainArray(n) is an instance of k (its class is k
\* or a subclass of k, so k = AppError matches every node), false otherwise;
\* and a call of isError returns that.
C1_IsErrorIffInstanceInChain ==
  /\ \A n \in Nodes, k \in AppClasses : isError(n, k) = (Matches(n, k) /= {})
  /\ (last.op = "isError" /\ last.arg \in Nodes)
       => last.b = (Matches(last.arg, last.k) /= {})

\* C1 witness: isError has answered true for a class that neither the head nor
\* its cause is an instance of, found at the third node of the chain.
C1_Witness ==
  /\ last.op = "isError"
  /\ last.arg \in Nodes
  /\ last.b
  /\ last.k /= "AppError"
  /\ Min(Matches(last.arg, last.k) \cup {MaxNodes + 1}) = 3

\* C2: for every chain head n and class k, asError(n, k) is the matching node
\* (the instance of k) with the lowest index in chainArray(n), as a reference
\* to that very node of the chain, and undefined when no node matches; and a
\* call of asError returns that.
C2_AsErrorFirstMatch ==
  /\ \A n \in Nodes, k \in AppClasses :
       asError(n, k) = IF Matches(n, k) = {} THEN Undefined
                       ELSE chainArray(n)[Min(Matches(n, k))]
  /\ (last.op = "asError" /\ last.arg \in Nodes)
       => last.ref = IF Matches(last.arg, last.k) = {} THEN Undefined
                     ELSE chainArray(last.arg)[Min(Matches(last.arg, last.k))]

\* C2 witness: asError has returned the second node of a chain in which a
\* later node matches too.
C2_Witness ==
  /\ last.op = "asError"
  /\ last.arg \in Nodes
  /\ Cardinality(Matches(last.arg, last.k)) >= 2
  /\ Min(Matches(last.arg, last.k)) = 2
  /\ last.ref = chainArray(last.arg)[2]

\* The values isError / asError visit from v: v, then the cause of every visited
\* Error instance whose cause is truthy.
RECURSIVE ErrorWalk(_)
ErrorWalk(v) ==
  IF InstanceOf(v, "Error") /\ Truthy(heap[v].cause)
  THEN <<v>> \o ErrorWalk(heap[v].cause)
  ELSE <<v>>

WalkMatches(v, k) ==
  {i \in 1..Len(ErrorWalk(v)) : InstanceOf(ErrorWalk(v)[i], k)}

\* C3, as stated: whenever a value is not itself of the queried kind but exposes
\* a cause link (structurally: any object with a cause property), the walk
\* continues into that cause.
C3_WalksEveryCauseLink ==
  \A v \in Refs, k \in AppClasses :
    (~InstanceOf(v, k) /\ heap[v].cause /= Undefined)
      => /\ isError(v, k) = isError(heap[v].cause, k)
         /\ asError(v, k) = asError(heap[v].cause, k)

\* C3, amended: isError and asError accept any value; the walk continues into
\* the cause of a value that is not of the queried class exactly when the value
\* is an Error instance (a chain node or a foreign host error) with a truthy
\* cause, and stops at any other value, a plain object with a cause property
\* included. So a node of class k below one or more foreign Error wrappers is
\* found by isError and returned by asError.
C3_WalksCauseOfErrors ==
  /\ \A v \in Values, k \in AppClasses :
       /\ isError(v, k) = (WalkMatches(v, k) /= {})
       /\ asError(v, k) = IF WalkMatches(v, k) = {} THEN Undefined
                          ELSE ErrorWalk(v)[Min(WalkMatches(v, k))]
  /\ last.op = "isError" => last.b = (WalkMatches(last.arg, last.k) /= {})
  /\ last.op = "asError"
       => last.ref = IF WalkMatches(last.arg, last.k) = {} THEN Undefined
                     ELSE ErrorWalk(last.arg)[Min(WalkMatches(last.arg, last.k))]

\* C3 witness: asError has returned a chain node that lies below two foreign
\* Error wrappers.
C3_Witness ==
  /\ last.op = "asError"
  /\ last.arg \in Refs
  /\ Len(ErrorWalk(last.arg)) >= 3
  /\ heap[ErrorWalk(last.arg)[1]].cls = "Error"
  /\ heap[ErrorWalk(last.arg)[2]].cls = "Error"
  /\ last.ref = ErrorWalk(last.arg)[3]
  /\ last.ref \in Nodes

\* C4: wrap(n, message) returns a new node, distinct from n and from every
\* object that existed before, of class AppError whatever the class of n, with
\* exactly the given message and with n itself as its cause.
C4_WrapMakesAppErrorHead ==
  last.op = "wrap"
    => /\ last.arg \in Nodes
       /\ last.ref = Len(heap)
       /\ last.ref /= last.arg
       /\ tag(last.ref) = "AppError"
       /\ heap[last.ref].name = "AppError"
       /\ heap[last.ref].message = last.msg
       /\ heap[last.ref].cause = last.arg

\* C4 witness: a node of another class than AppError has been wrapped.
C4_Witness ==
  /\ last.op = "wrap"
  /\ tag(last.arg) = "NotFoundError"
  /\ heap[last.arg].message /= last.msg

\* C5: every wrap adds exactly one to the chain length: after j wraps applied
\* one on top of the other, starting at node base, chainArray of the result has
\* length chainArray(base).length + j.
C5_WrapAddsOne ==
  last.op = "wrap"
    => /\ last.j >= 1
       /\ Len(chainArray(last.ref)) = Len(chainArray(last.base)) + last.j
       /\ Len(chainArray(last.ref)) = Len(chainArray(last.arg)) + 1

\* C5 witness: two wraps in a row have been applied on top of a node.
C5_Witness ==
  /\ last.op = "wrap"
  /\ last.j = MaxNodes - 1
  /\ Len(chainArray(last.base)) = 1
  /\ Len(chainArray(last.ref)) = MaxNodes

\* C6: chainArray(n) is head-first: its first element is n, each following
\* element is the cause of the one before it, and its length is 1 when n has no
\* cause and 1 + chainArray(n.cause).length otherwise; a call returns it.
C6_ChainArrayHeadFirst ==
  /\ \A n \in Nodes :
       LET ca == chainArray(n) IN
       /\ Len(ca) >= 1
       /\ ca[1] = n
       /\ \A i \in 1..(Len(ca) - 1) : ca[i + 1] = heap[ca[i]].cause
       /\ Len(ca) = IF heap[n].cause = Undefined THEN 1
                    ELSE 1 + Len(chainArray(heap[n].cause))
  /\ last.op = "chainArray"
       => /\ last.list[1] = last.arg
          /\ \A i \in 1..(Len(last.list) - 1) :
               last.list[i + 1] = heap[last.list[i]].cause
          /\ heap[last.list[Len(last.list)]].cause = Undefined

\* C6 witness: chainArray has been called on the head of a three-node chain.
C6_Witness ==
  /\ last.op = "chainArray"
  /\ Len(last.list) = 3
  /\ last.list[3] /= last.list[2]

\* C7: rootCause(n) is the last element of chainArray(n): the node reached by
\* following cause until it is absent, and n itself when n has no cause.
C7_RootCauseIsLast ==
  /\ \A n \in Nodes :
       /\ rootCause(n) = chainArray(n)[Len(chainArray(n))]
       /\ heap[rootCause(n)].cause = Undefined
       /\ heap[n].cause = Undefined => rootCause(n) = n
  /\ last.op = "rootCause"
       => last.ref = chainArray(last.arg)[Len(chainArray(last.arg))]

\* C7 witness: rootCause has returned the third node of a chain.
C7_Witness ==
  /\ last.op = "rootCause"
  /\ Len(chainArray(last.arg)) = 3
  /\ last.ref = chainArray(last.arg)[3]
  /\ last.ref /= last.arg

\* The number of positions of sequence q that hold x.
Count(q, x) == Cardinality({i \in 1..Len(q) : q[i] = x})

\* C8: chain() is the segments "[kind] message" of the nodes of chainArray(n),
\* in that order, joined by " -> ": a chain of length L gives L segments and
\* L - 1 separators, none leading and none trailing, and a single node gives
\* its own segment alone.
C8_ChainJoinsSegments ==
  /\ \A n \in Nodes :
       LET ca == chainArray(n)
           out == chain(n)
       IN /\ Len(out) = 2 * Len(ca) - 1
          /\ \A i \in 1..Len(ca) :
               out[2 * i - 1] = "[" \o tag(ca[i]) \o "] " \o heap[ca[i]].message
          /\ \A i \in 1..(Len(ca) - 1) : out[2 * i] = " -> "
          /\ Count(out, " -> ") = Len(ca) - 1
  /\ last.op = "chain"
       => /\ last.strs = chain(last.arg)
          /\ last.strs[1] /= " -> "
          /\ last.strs[Len(last.strs)] /= " -> "

\* C8 witness: chain() has rendered a three-node chain.
C8_Witness ==
  /\ last.op = "chain"
  /\ Len(chainArray(last.arg)) = 3
  /\ Count(last.strs, " -> ") = 2

\* C9: fullStack() is the concatenation, in chainArray order, of one segment
\* "[kind] <trace>" per node; the head segment has no prefix and every later
\* one is prefixed by the line break and marker "\nCaused by: ", so a chain of
\* length L holds the marker L - 1 times and nothing else between segments.
C9_FullStackMarksCauses ==
  /\ \A n \in Nodes :
       LET ca == chainArray(n)
           out == fullStack(n)
       IN /\ Len(out) = 2 * Len(ca) - 1
          /\ out[1] = "[" \o tag(n) \o "] " \o heap[n].stack
          /\ \A i \in 2..Len(ca) :
               /\ out[2 * i - 2] = "\nCaused by: "
               /\ out[2 * i - 1] = "[" \o tag(ca[i]) \o "] " \o heap[ca[i]].stack
          /\ Count(out, "\nCaused by: ") = Len(ca) - 1
  /\ last.op = "fullStack" => last.strs = fullStack(last.arg)

\* C9 witness: fullStack() has rendered a three-node chain.
C9_Witness ==
  /\ last.op = "fullStack"
  /\ Len(chainArray(last.arg)) = 3
  /\ Count(last.strs, "\nCaused by: ") = 2

\* The nesting depth of a toJSON record through its cause field.
RECURSIVE JsonDepth(_)
JsonDepth(json) ==
  IF json.cause = <<>> THEN 1 ELSE 1 + JsonDepth(json.cause[1])

\* The record at nesting level i (the outermost is level 1).
RECURSIVE JsonLevel(_, _)
JsonLevel(json, i) == IF i = 1 THEN json ELSE JsonLevel(json.cause[1], i - 1)

\* C10: toJSON(n) nests through its cause field as deep as chainArray(n) is
\* long; the kind and the message at level i are those of chainArray(n)[i];
\* and the cause field is absent exactly at the level of the root cause.
C10_ToJSONMirrorsChain ==
  /\ \A n \in Nodes :
       LET ca == chainArray(n)
           json == toJSON(n)
       IN /\ JsonDepth(json) = Len(ca)
          /\ \A i \in 1..Len(ca) :
               /\ JsonLevel(json, i).tag = tag(ca[i])
               /\ JsonLevel(json, i).message = heap[ca[i]].message
               /\ (JsonLevel(json, i).cause = <<>>) = (ca[i] = rootCause(n))
  /\ last.op = "toJSON" => last.json = <<toJSON(last.arg)>>

\* C10 witness: toJSON has serialised a three-node chain.
C10_Witness ==
  /\ last.op = "toJSON"
  /\ Len(chainArray(last.arg)) = 3
  /\ JsonDepth(last.json[1]) = 3

\* Unknown values and their conversion into chain nodes.
NextConvert ==
  \/ NewNotFoundError
  \/ NewError
  \/ NewObject
  \/ NewBareObject
  \/ CallFromUnknown
  \/ CallTryCatch

SpecConvert == Init /\ [][NextConvert]_vars

\* An asynchronous operation under tryCatchAsync.
NextAsync ==
  \/ NewNotFoundError
  \/ NewError
  \/ NewBareObject
  \/ CallTryCatchAsync
  \/ SettleInner
  \/ RunReaction

SpecAsync == Init /\ [][NextAsync]_vars

\* Every operation that reads or extends chains of chain nodes.
NextOps ==
  \/ NewNotFoundError
  \/ CallWrap
  \/ CallIsError
  \/ CallAsError
  \/ CallChain
  \/ CallFullStack
  \/ CallRootCause
  \/ CallChainArray
  \/ CallToJSON
  \/ CallFromUnknownNode
  \/ CallWrapErr
  \/ CallWrapErrAsync

SpecOps == Init /\ [][NextOps]_vars

\* ---- C11 ----------------------------------------------------------------------
\* C11: fromUnknown(value) returns value itself, the same identity and no copy or
\* wrapper, whenever value is a chain node of any kind: the call does not throw,
\* the reference returned is the argument and no object is allocated.
C11_FromUnknownNodeIdentity ==
  /\ \A n \in Nodes : fromUnknown(n) = Returned(n, <<>>)
  /\ (last.op = "fromUnknown" /\ last.arg \in Nodes) =>
       /\ ~last.threw
       /\ last.ref = last.arg
       /\ last.arg = Len(heap)

\* fromUnknown was applied to a NotFoundError and to a node it had made itself.
C11_Witness ==
  /\ last.op = "fromUnknown"
  /\ last.arg \in Nodes
  /\ last.ref = last.arg
  /\ \E n \in Nodes : tag(n) = "NotFoundError"
  /\ tag(last.arg) \in {"NotFoundError", "UnexpectedError"}

\* ---- C12 ----------------------------------------------------------------------
\* The foreign errors: instances of Error that are no chain nodes.
ForeignErrors == {v \in Refs : InstanceOf(v, "Error") /\ ~InstanceOf(v, "AppError")}

\* Node n carries the message of the foreign error f and, where f has a cause
\* that is an error, a cause converted from it in the same way.
RECURSIVE ConvertedFrom(_, _)
ConvertedFrom(n, f) ==
  /\ n \in Nodes
  /\ heap[n].message = heap[f].message
  /\ InstanceOf(heap[f].cause, "Error") =>
       /\ heap[n].cause \in Nodes
       /\ ConvertedFrom(heap[n].cause, heap[f].cause)

\* C12: when fromUnknown is given a foreign throwable that has a cause link, the
\* Unexpected node returned has a cause too, converted recursively from the
\* foreign cause: result.cause is defined and its message is the foreign
\* cause's message, at every depth of the foreign cause chain.
C12_ForeignCausePreserved ==
  (/\ last.op = "fromUnknown"
   /\ last.arg \in ForeignErrors
   /\ InstanceOf(heap[last.arg].cause, "Error")) =>
    /\ ~last.threw
    /\ heap[last.ref].cause /= Undefined
    /\ ConvertedFrom(last.ref, last.arg)

\* ---- C13 ----------------------------------------------------------------------
\* C13: for every value that is no chain node, fromUnknown returns a new node of
\* kind UnexpectedError; its message and captured trace are the foreign error's
\* when the value is a host Error, and its message is the value's string
\* rendering when it is any other value.
C13_NonNodeBecomesUnexpected ==
  (last.op = "fromUnknown" /\ last.arg \notin Nodes) =>
    /\ ~last.threw
    /\ last.ref \in Nodes
    /\ last.ref = Len(heap)
    /\ last.ref /= last.arg
    /\ tag(last.ref) = "UnexpectedError"
    /\ IF last.arg \in ForeignErrors
       THEN /\ heap[last.ref].message = heap[last.arg].message
            /\ heap[last.ref].stack = heap[last.arg].stack
       ELSE heap[last.ref].message = String(last.arg)

\* ---- C14 ----------------------------------------------------------------------
\* C14: fromUnknown is total: for every input value (chain node, foreign error,
\* string, number, null, undefined, arbitrary object) it returns a chain node
\* and never throws.
C14_FromUnknownTotal ==
  last.op = "fromUnknown" => (~last.threw /\ last.ref \in Nodes)

\* ---- C15 ----------------------------------------------------------------------
\* C15: tryCatch(fn, mapError) returns Ok(v) when fn returns v, and
\* Err(mapError(X)) when fn throws X: with mapError omitted the error is
\* fromUnknown(X) (X itself when X is a chain node, a new UnexpectedError
\* otherwise), with the custom mapper it is exactly the mapper's result, a new
\* ValidationError.
C15_TryCatchOkOrMappedErr ==
  last.op = "tryCatch" =>
    /\ ~last.threw
    /\ IF ~last.failed
       THEN last.isOk /\ last.value = last.arg
       ELSE /\ ~last.isOk
            /\ last.ref \in Nodes
            /\ last.mapper = "custom" =>
                 /\ last.ref = Len(heap)
                 /\ tag(last.ref) = "ValidationError"
                 /\ heap[last.ref].message = "field: invalid"
            /\ last.mapper = "default" =>
                 IF last.arg \in Nodes THEN last.ref = last.arg
                 ELSE /\ last.ref = Len(heap)
                      /\ tag(last.ref) = "UnexpectedError"

\* ---- C16 ----------------------------------------------------------------------
\* C16: tryCatch contains failures: whatever fn throws, the call returns a
\* Result to its caller and nothing is raised out of tryCatch.
C16_TryCatchContains ==
  (last.op = "tryCatch" /\ last.failed) => (~last.threw /\ ~last.isOk)

\* ---- C17 ----------------------------------------------------------------------
\* C17: the ResultAsync of tryCatchAsync(fn, mapError) settles only after the
\* operation started by fn has settled; it then holds Ok(v) if the operation
\* fulfilled with v and Err(mapError(r)) if it rejected with r (r itself or a
\* new UnexpectedError with the default mapper, a new ValidationError with the
\* custom one); it never settles with a rejection.
C17_SettlesAfterInnerWithResult ==
  /\ task.outer /= "none" => task.inner /= "none"
  /\ task.outer /= "rejected"
  /\ task.phase = "settled" =>
       IF task.inner = "fulfilled"
       THEN task.outer = "ok" /\ task.outerValue = task.innerValue
       ELSE /\ task.outer = "err"
            /\ task.outerValue \in Nodes
            /\ task.mapper = "custom" => tag(task.outerValue) = "ValidationError"
            /\ task.mapper = "default" =>
                 IF task.innerValue \in Nodes
                 THEN task.outerValue = task.innerValue
                 ELSE tag(task.outerValue) = "UnexpectedError"

\* ---- C18 ----------------------------------------------------------------------
\* C18: wrapErr(message) and wrapErrAsync(message) turn a result holding
\* failure e into a result holding wrap(e, message), a new node of kind AppError
\* with the given message and with e itself as its cause, and turn a result
\* holding success v into a result holding success v.
C18_WrapErrWrapsFailure ==
  /\ \A m \in Messages :
       /\ wrapErr(m, ok(NumVal)) = [result |-> ok(NumVal), alloc |-> <<>>]
       /\ wrapErrAsync(m, ok(NumVal)) = [result |-> ok(NumVal), alloc |-> <<>>]
       /\ \A e \in Nodes :
            /\ wrapErr(m, err(e)) =
                 [result |-> err(NextId), alloc |-> <<wrap(e, m, NextId)>>]
            /\ wrapErrAsync(m, err(e)) = wrapErr(m, err(e))
  /\ last.op \in {"wrapErr", "wrapErrAsync"} =>
       IF last.failed
       THEN /\ ~last.isOk
            /\ last.ref \in Nodes
            /\ last.ref = Len(heap)
            /\ tag(last.ref) = "AppError"
            /\ heap[last.ref].message = last.msg
            /\ heap[last.ref].cause = last.arg
            /\ last.arg \in Nodes
       ELSE /\ last.isOk
            /\ last.value = last.arg
            /\ last.ref = Undefined

\* wrapErr was applied to a failure that was a chain of two nodes already.
C18_Witness ==
  /\ last.op = "wrapErr"
  /\ last.failed
  /\ heap[last.ref].cause = last.arg
  /\ Len(chainArray(last.ref)) = 3

\* ---- C19 ----------------------------------------------------------------------
\* The nodes reached from n by following at most k cause links.
RECURSIVE ReachIn(_, _)
ReachIn(n, k) ==
  IF k = 0 \/ heap[n].cause \notin Nodes THEN {}
  ELSE {heap[n].cause} \cup ReachIn(heap[n].cause, k - 1)

\* C19: after any constructions (with or without a cause) and wraps every chain
\* is finite and acyclic: no node is reachable from itself by following cause
\* links and no node occurs twice in chainArray(n).
C19_ChainsAcyclic ==
  /\ \A n \in Nodes : n \notin ReachIn(n, Len(heap))
  /\ \A n \in Nodes :
       LET arr == chainArray(n) IN
       /\ Len(arr) <= Len(heap)
       /\ \A i, j \in 1..Len(arr) : arr[i] = arr[j] => i = j

\* A chain of three: a node constructed with a cause that a wrap had made.
C19_Witness ==
  \E n \in Nodes :
    /\ tag(n) = "NotFoundError"
    /\ heap[n].cause \in Nodes
    /\ tag(heap[n].cause) = "AppError"
    /\ Len(chainArray(n)) = 3
    /\ last.op = "new"

\* ---- C20 ----------------------------------------------------------------------
\* C20: nodes are immutable after construction: no step (wrap, isError, asError,
\* chain, fullStack, rootCause, chainArray, toJSON, fromUnknown of a chain
\* node, wrapErr, wrapErrAsync, a construction) changes the kind, message,
\* cause or captured trace of a node that exists already.
C20_NodesImmutable ==
  [][\A i \in 1..Len(heap) :
       /\ i <= Len(heap')
       /\ heap'[i].cls = heap[i].cls
       /\ heap'[i].message = heap[i].message
       /\ heap'[i].cause = heap[i].cause
       /\ heap'[i].stack = heap[i].stack]_vars

\* n.wrap(m) has returned, with m another message than n's, and n is a
\* NotFoundError with its own message still.
C20_Witness ==
  /\ last.op = "wrap"
  /\ tag(last.arg) = "NotFoundError"
  /\ heap[last.arg].message = "User with id '123' not found"
  /\ heap[last.arg].message /= last.msg
  /\ heap[last.ref].cause = last.arg

\* ---- kinds and names -------------------------------------------------------------
\* Nodes of every origin (built-in constructor, createErrorClass, wrap,
\* fromUnknown) and what reports their kind: tag, name, toJSON, hasTag and the
\* queries.
NextKinds ==
  \/ NewNotFoundError
  \/ NewCustomError
  \/ CallWrap
  \/ CallFromUnknownString
  \/ CallToJSON
  \/ CallHasTag
  \/ CallIsError
  \/ CallAsError

SpecKinds == Init /\ [][NextKinds]_vars

\* ---- C21 ----------------------------------------------------------------------
\* C21: for every node made by a built-in constructor, by wrap, by fromUnknown
\* or by a class of createErrorClass(name, ..), the tag and the name are equal
\* to each other and to the name of the class (the name given to
\* createErrorClass, AppError for wrap, UnexpectedError for fromUnknown), and
\* toJSON reports that value in its tag field and in its name field, at every
\* level.
C21_TagIsNameIsClassName ==
  /\ \A n \in Nodes :
       /\ heap[n].name = tag(n)
       /\ heap[n].name = ClassName(heap[n].cls)
       /\ heap[n].cls = "Custom1" => heap[n].name = "RateLimitError"
       /\ heap[n].cls = "Custom2" => heap[n].name = "NotFoundError"
       /\ heap[n].cls \in AppClasses => heap[n].name = heap[n].cls
       /\ LET json == toJSON(n) IN
          \A i \in 1..JsonDepth(json) :
            /\ JsonLevel(json, i).tag = JsonLevel(json, i).name
            /\ JsonLevel(json, i).name = heap[chainArray(n)[i]].name
  /\ last.op = "wrap" =>
       (tag(last.ref) = "AppError" /\ heap[last.ref].name = "AppError")
  /\ (last.op = "fromUnknown" /\ last.arg \notin Nodes) =>
       (tag(last.ref) = "UnexpectedError" /\ heap[last.ref].name = "UnexpectedError")
  /\ last.op = "toJSON" =>
       (last.json[1].tag = tag(last.arg) /\ last.json[1].name = tag(last.arg))

\* toJSON has serialised a chain of three origins: a wrap of a RateLimitError
\* made by createErrorClass, whose cause came from fromUnknown.
C21_Witness ==
  /\ last.op = "toJSON"
  /\ tag(last.arg) = "AppError"
  /\ JsonDepth(last.json[1]) = 3
  /\ JsonLevel(last.json[1], 2).name = "RateLimitError"
  /\ JsonLevel(last.json[1], 3).tag = "UnexpectedError"

\* ---- C22 ----------------------------------------------------------------------
\* C22: for every chain head n and kind name s, hasTag(n, s) is true exactly
\* when some node of chainArray(n) has the tag s, also when that node is of a
\* class made by createErrorClass; it is false otherwise.
C22_HasTagIffTagInChain ==
  /\ \A n \in Nodes, s \in TagNames :
       hasTag(n, s) = (\E i \in 1..Len(chainArray(n)) : tag(chainArray(n)[i]) = s)
  /\ last.op = "hasTag" =>
       last.b = (\E i \in 1..Len(chainArray(last.arg)) :
                   tag(chainArray(last.arg)[i]) = last.k)

\* hasTag found, below the head, the tag of a node whose class was made by
\* createErrorClass.
C22_Witness ==
  /\ last.op = "hasTag"
  /\ last.b
  /\ last.k = "RateLimitError"
  /\ tag(last.arg) /= "RateLimitError"
  /\ \E i \in 2..Len(chainArray(last.arg)) :
       heap[chainArray(last.arg)[i]].cls = "Custom1"

\* ---- C27 ----------------------------------------------------------------------
\* C27: matching in isError / asError follows the class hierarchy: for every
\* chain node n, of a built-in or a user-defined kind, isError(n, AppError) is
\* true and asError(n, AppError) is n itself, whatever the tag of n.
C27_EveryNodeIsAppError ==
  /\ \A n \in Nodes : isError(n, "AppError") /\ asError(n, "AppError") = n
  /\ (last.op = "isError" /\ last.arg \in Nodes /\ last.k = "AppError") => last.b
  /\ (last.op = "asError" /\ last.arg \in Nodes /\ last.k = "AppError") =>
       last.ref = last.arg

\* isError(n, AppError) was true for a node of a class made by createErrorClass
\* that has no cause.
C27_Witness ==
  /\ last.op = "isError"
  /\ last.k = "AppError"
  /\ last.b
  /\ heap[last.arg].cls \in CustomClasses
  /\ heap[last.arg].cause = Undefined

\* ---- the queries over every value ---------------------------------------------
\* isError / asError of chain nodes, host errors, plain and prototype-less
\* objects, strings, numbers, null and undefined.
NextQuery ==
  \/ NewNotFoundError
  \/ NewError
  \/ NewObject
  \/ NewBareObject
  \/ CallIsErrorAny
  \/ CallAsErrorAny

SpecQuery == Init /\ [][NextQuery]_vars

\* ---- C23 ----------------------------------------------------------------------
\* A value that is not of kind k and exposes no cause link: a string, a number,
\* null, undefined, or an object without a cause that is no instance of k.
NoKindNoCause(v, k) ==
  \/ v \in Primitives
  \/ v \in Refs /\ ~InstanceOf(v, k) /\ heap[v].cause = Undefined

\* C23: for any value that is neither of the queried kind nor exposes a cause
\* link (a string, a number, null), isError returns false and asError returns
\* undefined; the call returns, it does not throw.
C23_NothingFoundInPlainValues ==
  /\ \A v \in Values, k \in AppClasses :
       NoKindNoCause(v, k) => (isError(v, k) = FALSE /\ asError(v, k) = Undefined)
  /\ (last.op = "isError" /\ NoKindNoCause(last.arg, last.k)) =>
       (last.b = FALSE /\ ~last.threw)
  /\ (last.op = "asError" /\ NoKindNoCause(last.arg, last.k)) =>
       (last.ref = Undefined /\ ~last.threw)

\* asError(null, NotFoundError) has returned undefined while the heap holds a
\* NotFoundError.
C23_Witness ==
  /\ last.op = "asError"
  /\ last.arg = Null
  /\ last.k = "NotFoundError"
  /\ last.ref = Undefined
  /\ \E n \in Nodes : tag(n) = "NotFoundError"

\* ---- C26 ----------------------------------------------------------------------
\* C26: isError and asError agree on every input: for every value v and class
\* k, isError(v, k) is true exactly when asError(v, k) is not undefined, and
\* the value asError returns is then an instance of k that is v or is reached
\* from v by following cause links.
C26_IsErrorIffAsErrorDefined ==
  \A v \in Values, k \in AppClasses :
    LET found == asError(v, k) IN
    /\ isError(v, k) = (found /= Undefined)
    /\ found /= Undefined =>
         /\ InstanceOf(found, k)
         /\ \E i \in 1..Len(ErrorWalk(v)) : ErrorWalk(v)[i] = found

\* Both queries have an answer below a host error: asError returned the
\* NotFoundError that is the cause of the Error asked about.
C26_Witness ==
  /\ last.op = "asError"
  /\ last.arg \in Refs
  /\ heap[last.arg].cls = "Error"
  /\ last.ref = heap[last.arg].cause
  /\ last.ref \in Nodes
  /\ isError(last.arg, last.k)

\* ---- C28 ----------------------------------------------------------------------
\* Node w answers every lookup as node n does: isError and asError for every
\* class other than AppError, and rootCause.
SameLookups(w, n) ==
  /\ \A k \in AppClasses \ {"AppError"} :
       /\ isError(w, k) = isError(n, k)
       /\ asError(w, k) = asError(n, k)
  /\ rootCause(w) = rootCause(n)

\* C28: wrap preserves lookups and the root cause: for every node n, message m
\* and class k other than AppError, isError(wrap(n, m), k) = isError(n, k),
\* asError(wrap(n, m), k) is the node asError(n, k) and rootCause(wrap(n, m)) is
\* the node rootCause(n); the same holds after any number of wraps.
C28_WrapPreservesLookups ==
  last.op = "wrap" =>
    /\ last.ref \in Nodes
    /\ SameLookups(last.ref, last.arg)
    /\ SameLookups(last.ref, last.base)

\* The second wrap of a fluent sequence on a NotFoundError has returned, and
\* asError finds the NotFoundError through both wraps.
C28_Witness ==
  /\ last.op = "wrap"
  /\ last.j = 2
  /\ tag(last.base) = "NotFoundError"
  /\ asError(last.ref, "NotFoundError") = last.base
  /\ rootCause(last.ref) = last.base

\* ---- the traversals as loops ---------------------------------------------------
\* Chains of chain nodes and host errors, built between the calls; a traversal
\* that was called runs on until it returns (the program is single-threaded).
NextWalk ==
  \/ (Idle /\ NewNotFoundError)
  \/ (Idle /\ NewError)
  \/ (Idle /\ CallWrap)
  \/ StartWalk
  \/ StepWalk

\* A loop that can take another iteration takes it.
SpecWalk == Init /\ [][NextWalk]_vars /\ WF_vars(StepWalk)

\* ---- C24 ----------------------------------------------------------------------
\* C24: on every chain built by constructors and wrap each traversal (isError,
\* asError, chain, fullStack, rootCause, chainArray, toJSON) terminates, and
\* isError / asError terminate on every finite acyclic chain that mixes chain
\* nodes with foreign errors: a traversal never takes more iterations than
\* there are objects, and every call returns.
C24_TraversalsTerminate ==
  /\ [](last.j <= Len(heap))
  /\ (last.running ~> ~last.running)

\* asError has returned after walking from a host error through two chain
\* nodes without a match.
C24_Witness ==
  /\ last.op = "walk"
  /\ last.walk = "asError"
  /\ ~last.running
  /\ last.j = 2
  /\ heap[last.arg].cls = "Error"
  /\ last.cur \in Nodes

\* ---- C25 ----------------------------------------------------------------------
\* C25: tryCatchAsync keeps the contract of tryCatch for every way fn can
\* fail: whether fn returns a promise that rejects with X or throws X before
\* it has made its promise, the caller gets a ResultAsync that resolves to
\* Err(mapError(X)); nothing is raised out of the call of tryCatchAsync.
C25_AsyncContainsEveryFailure ==
  /\ last.op = "tryCatchAsync" => ~last.threw
  /\ (last.op = "tryCatchAsync" /\ last.failed) => task.phase /= "idle"
  /\ (task.phase = "settled" /\ task.inner = "rejected") =>
       (task.outer = "err" /\ task.outerValue \in Nodes)

====
